---- MODULE Spec2Model ----
(***************************************************************************)
(* Ensemble NER inference of run_kbert_ner_ensemble.py: the head forward   *)
(* contract (correct count, PAD zeroing), the ensemble vote, the BIO span  *)
(* extraction and the scoring pass of ensemblePredict.                     *)
(*                                                                         *)
(* Eight specifications share the operators below:                         *)
(*   Spec        main's construction of the head list and one evaluation   *)
(*               pass of ensemblePredict over a dataset                    *)
(*   SpecFair    Spec with every enabled step of the pass eventually taken *)
(*   SpecPad     passes of one to six heads over batches with padding      *)
(*   SpecVocab   getLabeltoIx scanning a training file                     *)
(*   SpecHead    one call of a head's forward                              *)
(*   SpecSpan    the scoring and report of a pass over one sentence        *)
(*   SpecLoader  batch_loader_bywxx over a dataset                         *)
(*   SpecReader  read_dataset_bywxx converting one row                     *)
(* Positions are 0-based as in the source: At(s, j) is s[j] of the code.   *)
(***************************************************************************)
EXTENDS Integers, Sequences, FiniteSets, TLC

VARIABLES
    pc,                  \* position in main / ensemblePredict / forward
    trained_models_num,  \* len(args.trained_model_path.split(','))
    models,              \* the nn.ModuleList built by main
    dataset,             \* label_ids: one row of seq_length label ids per instance
    batch_size,          \* args.batch_size
    i_,                  \* number of batches the loader has yielded
    label_ids_batch,     \* the current batch's label rows
    batch_true_max_len,  \* max over the batch of sum(padding_mask)
    all_pred,            \* one flattened prediction per evaluated head
    gold,                \* the gold sequence returned by the last evaluated head
    pred,                \* ensemble_pred, the merged sequence
    confusion,           \* confusion[predicted][gold]
    tag_correct,
    correct,
    gold_entities_num,
    pred_entities_num,
    pred_entities_pos,
    gold_entities_pos,
    head,                \* SpecHead: the arguments and the result of one forward
    report,              \* the precision, recall and f1 the pass prints
    batches,             \* SpecLoader: the batches batch_loader_bywxx has yielded
    line,                \* SpecReader: the row read_dataset_bywxx is converting
    vocab                \* SpecVocab: the training file and what getLabeltoIx returns

vars == <<pc, trained_models_num, models, dataset, batch_size, i_, label_ids_batch,
          batch_true_max_len, all_pred, gold, pred, confusion, tag_correct, correct,
          gold_entities_num, pred_entities_num, pred_entities_pos, gold_entities_pos,
          head, report, batches, line, vocab>>

(***************************************************************************)
(* Bounds                                                                  *)
(***************************************************************************)
\* non-padding tokens of a dataset
MaxTokens == 3
\* positions (instances x seq_length) of a dataset
MaxCells == 4
\* heads x non-padding tokens of a dataset voted on by several heads
MaxVotes == 6
\* instances of the batch handed to one forward call in SpecHead
MaxRows == 2
\* tokens of the one-sentence batch scored in SpecSpan
MaxSpanLen == 5
\* instances of the dataset sliced in SpecLoader
MaxInstances == 6
\* seq_length of the row converted in SpecReader
MaxSeqLen == 4
\* tags of the training file scanned in SpecVocab, header excluded
MaxFileTags == 3

(***************************************************************************)
(* Label vocabulary: getLabeltoIx on a training file whose tags are, in    *)
(* first-seen order, O, B-X, I-X, B-Y.                                     *)
(***************************************************************************)
labels_map == [PAD |-> 0, ENT |-> 1, O |-> 2, B_X |-> 3, I_X |-> 4, B_Y |-> 5]

begin_ids == <<3, 5>>

LabelIds == {labels_map.PAD, labels_map.ENT, labels_map.O, labels_map.B_X,
             labels_map.I_X, labels_map.B_Y}

InBeginIds(id) == \E b \in 1..Len(begin_ids) : begin_ids[b] = id

\* s[j] of the source (0-based)
At(s, j) == s[j + 1]

Range(s) == {s[x] : x \in 1..Len(s)}

(***************************************************************************)
(* Tensor helpers                                                          *)
(***************************************************************************)
RECURSIVE Flatten(_)
\* tensor.contiguous().view(-1): the rows one after the other
Flatten(rows) ==
    IF rows = <<>> THEN <<>> ELSE Head(rows) \o Flatten(Tail(rows))

RECURSIVE SumSeq(_)
SumSeq(s) == IF s = <<>> THEN 0 ELSE Head(s) + SumSeq(Tail(s))

RECURSIVE SumOver(_, _)
\* tensor.sum() over the entries f[a], a in S
SumOver(S, f) ==
    IF S = {} THEN 0
    ELSE LET a == CHOOSE a \in S : TRUE IN f[a] + SumOver(S \ {a}, f)

Max(S) == CHOOSE m \in S : \A x \in S : x <= m

\* padding mask of a row: 1 on real content, 0 on padding; a label is
\* [PAD] exactly where the token is padding
PaddingMask(row) == [x \in 1..Len(row) |-> IF row[x] # labels_map.PAD THEN 1 ELSE 0]

\* int(torch.max(torch.sum(padding_mask_ids_batch, dim=1)).item())
TrueMaxLen(rows) == Max({SumSeq(PaddingMask(rows[x])) : x \in 1..Len(rows)})

(***************************************************************************)
(* Heads                                                                   *)
(***************************************************************************)
\* the architectures main instantiates, in its order
init_models == <<"BertCrf", "BertGruCrf", "BertLstmCrf", "BertSoftmaxCross",
                 "BertLstm", "BertGru">>

CrfKinds == {"BertCrf", "BertGruCrf", "BertLstmCrf"}

\* heads that multiply predict by label_mask before returning it
ZeroingKinds == CrfKinds \cup {"BertSoftmax", "BertSoftmaxCross"}

HeadKinds == ZeroingKinds \cup {"BertLstm", "BertGru"}

\* variant: the tensors keep their seq_length columns
EffectiveLen_Full(rows, batch_sequence_max_len) == Len(rows[1])

\* variant: only a negative batch_sequence_max_len is replaced
EffectiveLen_ZeroKept(rows, batch_sequence_max_len) ==
    IF batch_sequence_max_len < 0 THEN Len(rows[1])
    ELSE IF batch_sequence_max_len > Len(rows[1]) THEN Len(rows[1])
    ELSE batch_sequence_max_len

\* if batch_sequence_max_len is None or batch_sequence_max_len <= 0:
\*     batch_sequence_max_len = src.shape[1]
EffectiveLen(rows, batch_sequence_max_len) ==
    IF batch_sequence_max_len <= 0 THEN Len(rows[1])
    ELSE IF batch_sequence_max_len > Len(rows[1]) THEN Len(rows[1])
    ELSE batch_sequence_max_len

\* t[:, :n]
Columns(t, n) == [x \in 1..Len(t) |-> SubSeq(t[x], 1, n)]

\* src, label, mask, pos, vm and padding_mask as the head computes on them:
\* src[:, :batch_sequence_max_len], ..., vm[:, :batch_sequence_max_len,
\* :batch_sequence_max_len], for the tuple b the loader yielded
HeadInputs(b, batch_sequence_max_len) ==
    LET n == EffectiveLen(b.label_ids, batch_sequence_max_len)
    IN  [src          |-> Columns(b.input_ids, n),
         label        |-> Columns(b.label_ids, n),
         mask         |-> Columns(b.mask_ids, n),
         pos          |-> Columns(b.pos_ids, n),
         vm           |-> [x \in 1..Len(b.vm_ids) |->
                             Columns(SubSeq(b.vm_ids[x], 1, n), n)],
         padding_mask |-> Columns(b.padding_mask_ids, n)]

\* label = label[:, :batch_sequence_max_len]; label.contiguous().view(-1)
HeadLabel(rows, batch_sequence_max_len) ==
    Flatten([x \in 1..Len(rows) |->
                SubSeq(rows[x], 1, EffectiveLen(rows, batch_sequence_max_len))])

\* label_mask = (label > 0)
LabelMask(label) == [x \in 1..Len(label) |-> IF label[x] > 0 THEN 1 ELSE 0]

\* variant: no head multiplies predict by label_mask
HeadPredict_NoMask(kind, label, raw) == raw

\* predict = predict * label_mask.long()  (not in BertLstm, BertGru)
HeadPredict(kind, label, raw) ==
    IF kind \in ZeroingKinds
    THEN [x \in 1..Len(label) |-> raw[x] * LabelMask(label)[x]]
    ELSE raw

\* CRF heads:     correct = torch.sum((predict.eq(label)).float())
\* softmax heads: correct = torch.sum(label_mask * (predict.eq(label)).float())
HeadCorrect(kind, label, predict) ==
    IF kind \in CrfKinds
    THEN Cardinality({x \in 1..Len(label) : predict[x] = label[x]})
    ELSE Cardinality({x \in 1..Len(label) :
                         LabelMask(label)[x] = 1 /\ predict[x] = label[x]})

\* variant: BertLstm and BertGru return the label rows at their full width
HeadForward_OwnGold(kind, rows, batch_sequence_max_len, raw) ==
    LET label == HeadLabel(rows, batch_sequence_max_len)
        predict == HeadPredict(kind, label, raw)
    IN  [correct |-> HeadCorrect(kind, label, predict),
         predict |-> predict,
         label   |-> IF kind \in ZeroingKinds THEN label ELSE Flatten(rows)]

\* forward(src, label, mask, pos, vm, padding_mask, batch_sequence_max_len):
\* raw is what crf.decode / argmax yields for the truncated batch
HeadForward(kind, rows, batch_sequence_max_len, raw) ==
    LET label == HeadLabel(rows, batch_sequence_max_len)
        predict == HeadPredict(kind, label, raw)
    IN  [correct |-> HeadCorrect(kind, label, predict),
         predict |-> predict,
         label   |-> label]

(***************************************************************************)
(* Ensemble vote (ensemblePredict, "ensemble" block)                       *)
(***************************************************************************)
\* the head whose prediction breaks a tie: all_pred[2]
TieBreakIndex == 2

RECURSIVE Tally(_, _, _, _)
\* for r in range(models_cnt): d[res] += 1, d as the pair <<keys in
\* insertion order, counts>>
Tally(preds, index, r, d) ==
    IF r >= Len(preds) THEN d
    ELSE LET res == At(At(preds, r), index)
             seen == res \in DOMAIN d[2]
             keys == IF seen THEN d[1] ELSE Append(d[1], res)
             cnt  == [k \in (DOMAIN d[2]) \cup {res} |->
                         IF k = res THEN (IF seen THEN d[2][k] ELSE 0) + 1
                         ELSE d[2][k]]
         IN  Tally(preds, index, r + 1, <<keys, cnt>>)

RECURSIVE Winners(_, _, _, _)
\* for k in d: keep the keys with the highest count, in dict order;
\* -1 stands for -float('inf'), counts being at least 1
Winners(d, x, max_cnt, final_token_preds) ==
    IF x > Len(d[1]) THEN final_token_preds
    ELSE LET k == d[1][x]
         IN  IF d[2][k] > max_cnt THEN Winners(d, x + 1, d[2][k], <<k>>)
             ELSE IF d[2][k] = max_cnt
                  THEN Winners(d, x + 1, max_cnt, Append(final_token_preds, k))
                  ELSE Winners(d, x + 1, max_cnt, final_token_preds)

FinalTokenPreds(preds, index) ==
    Winners(Tally(preds, index, 0, <<(<<>>), [k \in {} |-> 0]>>), 1, -1, <<>>)

\* the position has a tie and all_pred[2] does not exist
VoteIndexError(preds, index) ==
    Len(FinalTokenPreds(preds, index)) # 1 /\ Len(preds) <= TieBreakIndex

\* variant: the third head decides every position it can
TokenVote_ThirdHeadAlways(preds, index) ==
    IF Len(preds) > TieBreakIndex THEN At(At(preds, TieBreakIndex), index)
    ELSE FinalTokenPreds(preds, index)[1]

\* variant: a tie goes to the first of the tied ids in dict order
TokenVote_FirstTied(preds, index) == FinalTokenPreds(preds, index)[1]

\* if len(final_token_preds) == 1: final_token_preds[0]
\* else: all_pred[2][index]
TokenVote(preds, index) ==
    LET final_token_preds == FinalTokenPreds(preds, index)
    IN  IF Len(final_token_preds) = 1 THEN final_token_preds[1]
        ELSE At(At(preds, TieBreakIndex), index)

\* some position of the batch raises IndexError
VoteRaises(preds) == \E index \in 0..(Len(preds[1]) - 1) : VoteIndexError(preds, index)

RECURSIVE VoteFrom_TiesDropped(_, _)
\* the merged ids from position index on, nothing being appended at a tie
VoteFrom_TiesDropped(preds, index) ==
    IF index >= Len(preds[1]) THEN <<>>
    ELSE (IF Len(FinalTokenPreds(preds, index)) = 1
          THEN <<FinalTokenPreds(preds, index)[1]>> ELSE <<>>)
         \o VoteFrom_TiesDropped(preds, index + 1)

\* variant: nothing is appended at a tied position
EnsembleVote_TiesDropped(preds) == VoteFrom_TiesDropped(preds, 0)

\* ensemble_pred of a batch whose vote does not raise
EnsembleVote(preds) == [x \in 1..Len(preds[1]) |-> TokenVote(preds, x - 1)]

(***************************************************************************)
(* Scoring of one batch (ensemblePredict, after the vote)                  *)
(***************************************************************************)
\* variant: an O tag does not close a span
IsBoundary_NoO(id) == id = labels_map.PAD \/ InBeginIds(id)

\* gold[k] == [PAD] or gold[k] == O or gold[k] in begin_ids
IsBoundary(id) == id = labels_map.PAD \/ id = labels_map.O \/ InBeginIds(id)

RECURSIVE GoldEnd_EntStops(_, _)
\* variant: an [ENT] position closes the span
GoldEnd_EntStops(g, k) ==
    IF k >= Len(g) THEN Len(g) - 1
    ELSE IF At(g, k) = labels_map.ENT \/ IsBoundary(At(g, k)) THEN k - 1
    ELSE GoldEnd_EntStops(g, k + 1)

RECURSIVE GoldEnd(_, _)
\* for k in range(j + 1, size): skip [ENT]; end = k - 1 at the first
\* boundary; else: end = size - 1
GoldEnd(g, k) ==
    IF k >= Len(g) THEN Len(g) - 1
    ELSE IF At(g, k) = labels_map.ENT THEN GoldEnd(g, k + 1)
    ELSE IF IsBoundary(At(g, k)) THEN k - 1
    ELSE GoldEnd(g, k + 1)

RECURSIVE GoldEntities(_, _)
\* for j in range(size): one (start, end, type) per gold begin id
GoldEntities(g, j) ==
    IF j >= Len(g) THEN <<>>
    ELSE IF InBeginIds(At(g, j))
         THEN <<(<<j, GoldEnd(g, j + 1), At(g, j)>>)>> \o GoldEntities(g, j + 1)
         ELSE GoldEntities(g, j + 1)

RECURSIVE PredEnd_OwnEnt(_, _, _)
\* variant: the skipped positions are those whose PREDICTED id is [ENT]
PredEnd_OwnEnt(p, g, k) ==
    IF k >= Len(p) THEN Len(p) - 1
    ELSE IF At(p, k) = labels_map.ENT THEN PredEnd_OwnEnt(p, g, k + 1)
    ELSE IF IsBoundary(At(p, k)) THEN k - 1
    ELSE PredEnd_OwnEnt(p, g, k + 1)

RECURSIVE PredEnd(_, _, _)
\* the same scan over pred, where the skipped positions are those whose
\* GOLD id is [ENT]
PredEnd(p, g, k) ==
    IF k >= Len(p) THEN Len(p) - 1
    ELSE IF At(g, k) = labels_map.ENT THEN PredEnd(p, g, k + 1)
    ELSE IF IsBoundary(At(p, k)) THEN k - 1
    ELSE PredEnd(p, g, k + 1)

\* variant: a span also starts where the gold id is [ENT]
PredStarts_PadOnly(p, g, j) ==
    InBeginIds(At(p, j)) /\ At(g, j) # labels_map.PAD

\* pred[j] in begin_ids and gold[j] != [PAD] and gold[j] != [ENT]
PredStarts(p, g, j) ==
    InBeginIds(At(p, j)) /\ At(g, j) # labels_map.PAD /\ At(g, j) # labels_map.ENT

RECURSIVE PredEntities(_, _, _)
PredEntities(p, g, j) ==
    IF j >= Len(p) THEN <<>>
    ELSE IF PredStarts(p, g, j)
         THEN <<(<<j, PredEnd(p, g, j + 1), At(p, j)>>)>> \o PredEntities(p, g, j + 1)
         ELSE PredEntities(p, g, j + 1)

\* for j in range(gold.size()[0]): if gold[j] in begin_ids: gold_entities_num += 1
GoldBeginCount(g) == Cardinality({x \in 1..Len(g) : InBeginIds(g[x])})

\* variant: the test of the gold id is inverted
PredBeginCount_AtPad(p, g) ==
    Cardinality({x \in 1..Len(p) : InBeginIds(p[x]) /\ g[x] = labels_map.PAD})

\* if pred[j] in begin_ids and gold[j] != [PAD]: pred_entities_num += 1
PredBeginCount(p, g) ==
    Cardinality({x \in 1..Len(p) : InBeginIds(p[x]) /\ g[x] # labels_map.PAD})

RECURSIVE MatchCount_NoType(_, _)
\* variant: spans are compared as (start, end), without the type
MatchCount_NoType(pred_pos, gold_pos) ==
    IF pred_pos = <<>> THEN 0
    ELSE (IF \E x \in 1..Len(gold_pos) :
                /\ gold_pos[x][1] = Head(pred_pos)[1]
                /\ gold_pos[x][2] = Head(pred_pos)[2] THEN 1 ELSE 0)
         + MatchCount_NoType(Tail(pred_pos), gold_pos)

RECURSIVE MatchCount_NoEnd(_, _)
\* variant: spans are compared as (start, type), without the end
MatchCount_NoEnd(pred_pos, gold_pos) ==
    IF pred_pos = <<>> THEN 0
    ELSE (IF \E x \in 1..Len(gold_pos) :
                /\ gold_pos[x][1] = Head(pred_pos)[1]
                /\ gold_pos[x][3] = Head(pred_pos)[3] THEN 1 ELSE 0)
         + MatchCount_NoEnd(Tail(pred_pos), gold_pos)

RECURSIVE MatchCount(_, _)
\* for entity in pred_entities_pos: if entity in gold_entities_pos: correct += 1
MatchCount(pred_pos, gold_pos) ==
    IF pred_pos = <<>> THEN 0
    ELSE (IF \E x \in 1..Len(gold_pos) : gold_pos[x] = Head(pred_pos) THEN 1 ELSE 0)
         + MatchCount(Tail(pred_pos), gold_pos)

\* variant: the cell is indexed [gold][predicted]
FillConfusion_Transposed(conf, p, g) ==
    [a \in LabelIds |-> [b \in LabelIds |->
        conf[a][b] + Cardinality({x \in 1..Len(p) : g[x] = a /\ p[x] = b})]]

\* for jj in range(pred.size()[0]): confusion[pred[jj], gold[jj]] += 1
FillConfusion(conf, p, g) ==
    [a \in LabelIds |-> [b \in LabelIds |->
        conf[a][b] + Cardinality({x \in 1..Len(p) : p[x] = a /\ g[x] = b})]]

\* variant: only the positions with a gold label are compared
EqualCount_Masked(p, g) ==
    Cardinality({x \in 1..Len(p) : g[x] # labels_map.PAD /\ p[x] = g[x]})

\* torch.sum(pred == gold)
EqualCount(p, g) == Cardinality({x \in 1..Len(p) : p[x] = g[x]})

(***************************************************************************)
(* Report of a pass.  A quotient n / d is the pair <<n, d>>; a pair whose   *)
(* second component is 0 is a division that raises ZeroDivisionError.      *)
(***************************************************************************)
\* p = 0, r = 0, f1 = 0
Zero == <<0, 1>>

\* p + r, for quotients of non-zero denominators
Plus(p, r) == <<p[1] * r[2] + r[1] * p[2], p[2] * r[2]>>

\* if p + r != 0: f1 = 2 * p * r / (p + r) else: f1 = 0
F1(p, r) == IF Plus(p, r)[1] # 0 THEN <<2 * p[1] * r[1], Plus(p, r)[1]>> ELSE Zero

\* confusion[ii, :].sum().item()
p_denominator(conf, ii) == SumOver(LabelIds, conf[ii])

\* confusion[:, ii].sum().item()
r_denominator(conf, ii) == SumOver(LabelIds, [a \in LabelIds |-> conf[a][ii]])

\* variant: the quotient is taken whatever the row sum is
LabelPrecision_Unguarded(conf, ii) == <<conf[ii][ii], p_denominator(conf, ii)>>

\* if p_denominator != 0: p = confusion[ii, ii].item() / p_denominator else: p = 0
LabelPrecision(conf, ii) ==
    IF p_denominator(conf, ii) # 0 THEN <<conf[ii][ii], p_denominator(conf, ii)>>
    ELSE Zero

\* if r_denominator != 0: r = confusion[ii, ii].item() / r_denominator else: r = 0
LabelRecall(conf, ii) ==
    IF r_denominator(conf, ii) # 0 THEN <<conf[ii][ii], r_denominator(conf, ii)>>
    ELSE Zero

\* if pred_entities_num == 0: p = 0 else: p = correct / pred_entities_num
EntityPrecision(c, pred_num) == IF pred_num = 0 THEN Zero ELSE <<c, pred_num>>

\* if gold_entities_num == 0: r = 0 else: r = correct / gold_entities_num
EntityRecall(c, gold_num) == IF gold_num = 0 THEN Zero ELSE <<c, gold_num>>

\* what the pass prints after the last batch
MakeReport(conf, c, pred_num, gold_num) ==
    LET p == EntityPrecision(c, pred_num)
        r == EntityRecall(c, gold_num)
    IN  [labels |-> [ii \in LabelIds |->
                        LET lp == LabelPrecision(conf, ii)
                            lr == LabelRecall(conf, ii)
                        IN  [p |-> lp, r |-> lr, f1 |-> F1(lp, lr)]],
         p  |-> p,
         r  |-> r,
         f1 |-> F1(p, r)]

(***************************************************************************)
(* Batch loader                                                            *)
(***************************************************************************)
\* variant: only the full batches are yielded
NumBatches_FullOnly(data, bs) == Len(data) \div bs

\* variant: the loader stops one batch early
NumBatches_SkipLast(data, bs) ==
    (Len(data) \div bs) + (IF Len(data) > (Len(data) \div bs) * bs THEN 1 ELSE 0) - 1

\* the number of batches batch_loader_bywxx yields: instances_num // batch_size
\* full ones, and the rest when instances_num > instances_num // batch_size * batch_size
NumBatches(data, bs) ==
    (Len(data) \div bs) + (IF Len(data) > (Len(data) \div bs) * bs THEN 1 ELSE 0)

\* label_ids[i * batch_size: (i + 1) * batch_size, :], or the final slice
\* label_ids[instances_num // batch_size * batch_size:, :]
BatchRows(data, bs, i) ==
    IF i < Len(data) \div bs
    THEN SubSeq(data, i * bs + 1, (i + 1) * bs)
    ELSE SubSeq(data, (Len(data) \div bs) * bs + 1, Len(data))

\* the seven tensors ensemblePredict hands to the loader, for the label
\* rows data: the padding mask follows the labels, the cells of the other
\* tensors are named by instance and column(s)
Tensors(data) ==
    LET cells == [x \in 1..Len(data) |-> [c \in 1..Len(data[x]) |-> <<x, c>>]]
    IN  [input_ids        |-> cells,
         label_ids        |-> data,
         mask_ids         |-> cells,
         pos_ids          |-> cells,
         vm_ids           |-> [x \in 1..Len(data) |->
                                 [c \in 1..Len(data[x]) |->
                                     [c2 \in 1..Len(data[x]) |-> <<x, c, c2>>]]],
         tag_ids          |-> cells,
         padding_mask_ids |-> [x \in 1..Len(data) |-> PaddingMask(data[x])]]

\* the tuple the loader yields as batch i: the same slice of every tensor
LoaderBatch(tensors, bs, i) ==
    [f \in DOMAIN tensors |-> BatchRows(tensors[f], bs, i)]

(***************************************************************************)
(* Inputs                                                                  *)
(***************************************************************************)
\* tags of the original-text tokens of the evaluated file
TextIds == {labels_map.O, labels_map.B_X, labels_map.I_X}

\* tags of the first token of a sentence (an I- tag opens no sentence)
StartIds == {labels_map.O, labels_map.B_X}

\* labels of the non-padding positions of an instance (read_dataset_bywxx)
ContentIds == TextIds \cup {labels_map.ENT}

\* ids a head's decoder yields in a pass
RawIds == {labels_map.O, labels_map.B_X, labels_map.I_X, labels_map.B_Y}

\* ids a head's decoder yields in SpecHead
FewIds == {labels_map.PAD, labels_map.O, labels_map.B_X}

\* rows of read_dataset_bywxx: c content labels, the first one of an
\* original-text token, then [PAD] up to seq_length
RowsOfWidth(w) ==
    UNION {{[x \in 1..w |-> IF x <= c THEN f[x] ELSE labels_map.PAD] :
               f \in {g \in [1..c -> ContentIds] : g[1] \in StartIds}} : c \in 1..w}

\* the non-padding positions of all rows
ContentCount(data) ==
    SumSeq([x \in 1..Len(data) |-> SumSeq(PaddingMask(data[x]))])

\* n instances of seq_length w, some instance filling the whole width
Shapes == {sh \in (1..MaxCells) \X (1..MaxCells) : sh[1] * sh[2] <= MaxCells}

\* datasets in any (shuffled) order, of at most MaxTokens non-padding tokens
Datasets ==
    UNION {{d \in [1..sh[1] -> RowsOfWidth(sh[2])] :
               /\ ContentCount(d) <= MaxTokens
               /\ TrueMaxLen(d) = sh[2]} : sh \in Shapes}

NoHead == [kind |-> "none", label |-> <<>>, batch_sequence_max_len |-> 0,
           called |-> FALSE, correct |-> 0, predict |-> <<>>, gold |-> <<>>]

ZeroConfusion == [a \in LabelIds |-> [b \in LabelIds |-> 0]]

\* the locals of ensemblePredict before the first batch
PassLocals ==
    /\ i_ = 0
    /\ label_ids_batch = <<>>
    /\ batch_true_max_len = 0
    /\ all_pred = <<>>
    /\ gold = <<>>
    /\ pred = <<>>
    /\ confusion = ZeroConfusion
    /\ tag_correct = 0
    /\ correct = 0
    /\ gold_entities_num = 0
    /\ pred_entities_num = 0
    /\ pred_entities_pos = <<>>
    /\ gold_entities_pos = <<>>
    /\ report = <<>>
    /\ batches = <<>>
    /\ line = <<>>

(***************************************************************************)
(* Spec: one pass of ensemblePredict.  Datasets of up to MaxTokens tokens  *)
(* are scored with one checkpoint; ensembles of up to six heads vote on    *)
(* datasets of fewer tokens than heads and at most MaxVotes votes (heads x *)
(* tokens).                                                                *)
(***************************************************************************)
Init ==
    /\ pc = "main"
    /\ trained_models_num \in 1..Len(init_models)
    /\ models = <<>>
    /\ dataset \in Datasets
    /\ \/ trained_models_num = 1
       \/ /\ ContentCount(dataset) < trained_models_num
          /\ trained_models_num * ContentCount(dataset) <= MaxVotes
    /\ batch_size \in 1..Len(dataset)
    /\ PassLocals
    /\ vocab = <<>>
    /\ head = NoHead

\* main: models.append(init_models[i]) for i in range(trained_models_num),
\* then ensemblePredict(args, models, ...); no check of the number of heads
BuildModels ==
    /\ pc = "main"
    /\ trained_models_num <= Len(init_models)
    /\ models' = SubSeq(init_models, 1, trained_models_num)
    /\ pc' = "loop"
    /\ UNCHANGED <<trained_models_num, dataset, batch_size, i_, label_ids_batch,
                   batch_true_max_len, all_pred, gold, pred, confusion, tag_correct,
                   correct, gold_entities_num, pred_entities_num, pred_entities_pos,
                   gold_entities_pos, head, report, batches, line, vocab>>

\* the loader yields the next batch; batch_true_max_len; all_pred = []
NextBatch ==
    /\ pc = "loop"
    /\ i_ < NumBatches(dataset, batch_size)
    /\ label_ids_batch' = BatchRows(dataset, batch_size, i_)
    /\ batch_true_max_len' = TrueMaxLen(label_ids_batch')
    /\ all_pred' = <<>>
    /\ i_' = i_ + 1
    /\ pc' = "forward"
    /\ UNCHANGED <<trained_models_num, models, dataset, batch_size, gold, pred,
                   confusion, tag_correct, correct, gold_entities_num,
                   pred_entities_num, pred_entities_pos, gold_entities_pos, head, report, batches, line, vocab>>

\* for model in models: loss, _, pred, gold = model(...); all_pred = cat(all_pred, pred)
\* with the decoder of the head yielding one of raws
ForwardOf(raws) ==
    /\ pc = "forward"
    /\ Len(all_pred) < Len(models)
    /\ \E raw \in raws :
          LET out == HeadForward(models[Len(all_pred) + 1], label_ids_batch,
                                 batch_true_max_len, raw)
          IN  /\ all_pred' = Append(all_pred, out.predict)
              /\ gold' = out.label
    /\ pc' = IF Len(all_pred') = Len(models) THEN "vote" ELSE "forward"
    /\ UNCHANGED <<trained_models_num, models, dataset, batch_size, i_,
                   label_ids_batch, batch_true_max_len, pred, confusion, tag_correct,
                   correct, gold_entities_num, pred_entities_num, pred_entities_pos,
                   gold_entities_pos, head, report, batches, line, vocab>>

\* the call of the next head, the decoder yielding any ids of RawIds
Forward ==
    ForwardOf([1..(Len(label_ids_batch)
                   * EffectiveLen(label_ids_batch, batch_true_max_len)) -> RawIds])

\* the vote over every position; all_pred[2][index] raises IndexError when
\* a tie is met with fewer than three heads
Vote ==
    /\ pc = "vote"
    /\ IF VoteRaises(all_pred)
       THEN pc' = "IndexError" /\ UNCHANGED pred
       ELSE pc' = "score" /\ pred' = EnsembleVote(all_pred)
    /\ UNCHANGED <<trained_models_num, models, dataset, batch_size, i_,
                   label_ids_batch, batch_true_max_len, all_pred, gold, confusion,
                   tag_correct, correct, gold_entities_num, pred_entities_num,
                   pred_entities_pos, gold_entities_pos, head, report, batches, line, vocab>>

\* confusion matrix, tag_correct, entity counts, span lists, correct
Score ==
    /\ pc = "score"
    /\ confusion' = FillConfusion(confusion, pred, gold)
    /\ tag_correct' = tag_correct + EqualCount(pred, gold)
    /\ gold_entities_num' = gold_entities_num + GoldBeginCount(gold)
    /\ pred_entities_num' = pred_entities_num + PredBeginCount(pred, gold)
    /\ gold_entities_pos' = GoldEntities(gold, 0)
    /\ pred_entities_pos' = PredEntities(pred, gold, 0)
    /\ correct' = correct + MatchCount(pred_entities_pos', gold_entities_pos')
    /\ pc' = "loop"
    /\ UNCHANGED <<trained_models_num, models, dataset, batch_size, i_,
                   label_ids_batch, batch_true_max_len, all_pred, gold, pred, head, report, batches, line, vocab>>

\* the loader is exhausted: the report is printed and f1 returned
Report ==
    /\ pc = "loop"
    /\ i_ >= NumBatches(dataset, batch_size)
    /\ report' = MakeReport(confusion, correct, pred_entities_num, gold_entities_num)
    /\ pc' = "done"
    /\ UNCHANGED <<trained_models_num, models, dataset, batch_size, i_,
                   label_ids_batch, batch_true_max_len, all_pred, gold, pred,
                   confusion, tag_correct, correct, gold_entities_num,
                   pred_entities_num, pred_entities_pos, gold_entities_pos, head,
                   batches, line, vocab>>

Next == BuildModels \/ NextBatch \/ Forward \/ Vote \/ Score \/ Report

Spec == Init /\ [][Next]_vars

(***************************************************************************)
(* SpecPad: passes of one to six heads over batches with padding.  The     *)
(* decoders yield O at the labelled positions and any id of FewIds at the  *)
(* positions whose gold id is [PAD].                                       *)
(***************************************************************************)
PadProbes(rows, batch_sequence_max_len) ==
    LET label == HeadLabel(rows, batch_sequence_max_len)
    IN  {raw \in [1..Len(label) -> FewIds] :
            \A x \in 1..Len(label) : label[x] > 0 => raw[x] = labels_map.O}

InitPad ==
    /\ pc = "main"
    /\ trained_models_num \in 1..Len(init_models)
    /\ models = <<>>
    /\ dataset \in {d \in Datasets : Len(d) >= 2 /\ ContentCount(d) < Len(d) * Len(d[1])}
    /\ batch_size \in 1..Len(dataset)
    /\ PassLocals
    /\ vocab = <<>>
    /\ head = NoHead

ForwardPad == ForwardOf(PadProbes(label_ids_batch, batch_true_max_len))

NextPad == BuildModels \/ NextBatch \/ ForwardPad \/ Vote \/ Score \/ Report

SpecPad == InitPad /\ [][NextPad]_vars

(***************************************************************************)
(* SpecHead: one call of forward, for each of the seven head classes, on a *)
(* batch of a dataset, with the true_max_len of the batch or with 0        *)
(***************************************************************************)
\* the batches of up to MaxRows instances the loader yields
HeadBatches ==
    {b \in UNION {UNION {{BatchRows(d, bs, i) : i \in 0..(NumBatches(d, bs) - 1)} :
                             bs \in 1..Len(d)} :
                  d \in Datasets} : Len(b) <= MaxRows}

InitHead ==
    /\ pc = "head"
    /\ trained_models_num = 0
    /\ models = <<>>
    /\ dataset = <<>>
    /\ batch_size = 1
    /\ PassLocals
    /\ vocab = <<>>
    /\ \E kind \in HeadKinds, rows \in HeadBatches :
          \E len \in {TrueMaxLen(rows), 0} :
              head = [NoHead EXCEPT !.kind = kind, !.label = rows,
                                    !.batch_sequence_max_len = len]

\* loss, correct, predict, label = model(src, label, ..., batch_sequence_max_len)
ForwardCall ==
    /\ pc = "head"
    /\ \E raw \in [1..(Len(head.label)
                        * EffectiveLen(head.label, head.batch_sequence_max_len)) -> FewIds] :
          LET out == HeadForward(head.kind, head.label, head.batch_sequence_max_len, raw)
          IN  head' = [head EXCEPT !.called = TRUE, !.correct = out.correct,
                                   !.predict = out.predict, !.gold = out.label]
    /\ pc' = "returned"
    /\ UNCHANGED <<trained_models_num, models, dataset, batch_size, i_,
                   label_ids_batch, batch_true_max_len, all_pred, gold, pred,
                   confusion, tag_correct, correct, gold_entities_num,
                   pred_entities_num, pred_entities_pos, gold_entities_pos, report,
                   batches, line, vocab>>

NextHead == ForwardCall

SpecHead == InitHead /\ [][NextHead]_vars

(***************************************************************************)
(* SpecSpan: the scoring and the report of a pass over one sentence of up  *)
(* to MaxSpanLen tokens, evaluated by one head whose prediction differs    *)
(* from the gold sequence in at most one position.                         *)
(***************************************************************************)
\* gold sequences of one sentence: no padding, an original-text token first
Sentences ==
    UNION {{g \in [1..n -> ContentIds] : g[1] \in TextIds} : n \in 1..MaxSpanLen}

\* g, or g with the id at one position replaced
NearCopies(g) ==
    {g} \cup {[g EXCEPT ![x] = id] : x \in 1..Len(g), id \in RawIds}

\* ensemblePredict has voted on the only batch
InitSpan ==
    /\ pc = "score"
    /\ trained_models_num = 1
    /\ models = SubSeq(init_models, 1, 1)
    /\ gold \in Sentences
    /\ pred \in NearCopies(gold)
    /\ dataset = <<gold>>
    /\ batch_size = 1
    /\ i_ = 1
    /\ label_ids_batch = dataset
    /\ batch_true_max_len = Len(gold)
    /\ all_pred = <<pred>>
    /\ confusion = ZeroConfusion
    /\ tag_correct = 0
    /\ correct = 0
    /\ gold_entities_num = 0
    /\ pred_entities_num = 0
    /\ pred_entities_pos = <<>>
    /\ gold_entities_pos = <<>>
    /\ report = <<>>
    /\ batches = <<>>
    /\ line = <<>>
    /\ vocab = <<>>
    /\ head = NoHead

NextSpan == Score \/ Report

SpecSpan == InitSpan /\ [][NextSpan]_vars

(***************************************************************************)
(* SpecLoader: batch_loader_bywxx over a dataset of up to MaxInstances     *)
(* one-token instances, with every batch size from 1 to one more than the  *)
(* number of instances.                                                    *)
(***************************************************************************)
LoaderDatasets ==
    UNION {[1..n -> {<<labels_map.O>>, <<labels_map.B_X>>}] : n \in 1..MaxInstances}

InitLoader ==
    /\ pc = "loader"
    /\ trained_models_num = 0
    /\ models = <<>>
    /\ dataset \in LoaderDatasets
    /\ batch_size \in 1..(Len(dataset) + 1)
    /\ PassLocals
    /\ vocab = <<>>
    /\ head = NoHead

\* the generator runs to its next yield
LoaderYield ==
    /\ pc = "loader"
    /\ i_ < NumBatches(dataset, batch_size)
    /\ batches' = Append(batches, LoaderBatch(Tensors(dataset), batch_size, i_))
    /\ i_' = i_ + 1
    /\ UNCHANGED <<pc, trained_models_num, models, dataset, batch_size,
                   label_ids_batch, batch_true_max_len, all_pred, gold, pred,
                   confusion, tag_correct, correct, gold_entities_num,
                   pred_entities_num, pred_entities_pos, gold_entities_pos, head,
                   report, line, vocab>>

\* the generator returns
LoaderReturn ==
    /\ pc = "loader"
    /\ i_ >= NumBatches(dataset, batch_size)
    /\ pc' = "exhausted"
    /\ UNCHANGED <<trained_models_num, models, dataset, batch_size, i_,
                   label_ids_batch, batch_true_max_len, all_pred, gold, pred,
                   confusion, tag_correct, correct, gold_entities_num,
                   pred_entities_num, pred_entities_pos, gold_entities_pos, head,
                   report, batches, line, vocab>>

NextLoader == LoaderYield \/ LoaderReturn

SpecLoader == InitLoader /\ [][NextLoader]_vars

(***************************************************************************)
(* SpecReader: read_dataset_bywxx converts one row of the file, after       *)
(* kg.add_knowledge_with_vm_bywxx has augmented and padded its tokens.      *)
(***************************************************************************)
\* the id of the padding token
PAD_ID == 0

RECURSIVE NewLabels_NoAdvance(_, _, _, _, _)
\* variant: j is not advanced after an original-text token
NewLabels_NoAdvance(tokens, tag, labels, i, j) ==
    IF i >= Len(tokens) THEN [raised |-> FALSE, new_labels |-> <<>>]
    ELSE IF At(tag, i) = 0 /\ At(tokens, i) # PAD_ID
         THEN IF j >= Len(labels) THEN [raised |-> TRUE, new_labels |-> <<>>]
              ELSE LET rest == NewLabels_NoAdvance(tokens, tag, labels, i + 1, j)
                   IN  [raised |-> rest.raised,
                        new_labels |-> <<At(labels, j)>> \o rest.new_labels]
         ELSE LET rest == NewLabels_NoAdvance(tokens, tag, labels, i + 1, j)
              IN  [raised |-> rest.raised,
                   new_labels |->
                       <<(IF At(tag, i) = 1 /\ At(tokens, i) # PAD_ID
                          THEN labels_map.ENT ELSE labels_map.PAD)>>
                       \o rest.new_labels]

RECURSIVE NewLabels(_, _, _, _, _)
\* for i in range(len(tokens)): labels[j] for an original-text token,
\* [ENT] for a knowledge token, [PAD] otherwise; labels[j] raises
\* IndexError when j is past the last gold tag
NewLabels(tokens, tag, labels, i, j) ==
    IF i >= Len(tokens) THEN [raised |-> FALSE, new_labels |-> <<>>]
    ELSE IF At(tag, i) = 0 /\ At(tokens, i) # PAD_ID
         THEN IF j >= Len(labels) THEN [raised |-> TRUE, new_labels |-> <<>>]
              ELSE LET rest == NewLabels(tokens, tag, labels, i + 1, j + 1)
                   IN  [raised |-> rest.raised,
                        new_labels |-> <<At(labels, j)>> \o rest.new_labels]
         ELSE LET rest == NewLabels(tokens, tag, labels, i + 1, j)
              IN  [raised |-> rest.raised,
                   new_labels |->
                       <<(IF At(tag, i) = 1 /\ At(tokens, i) # PAD_ID
                          THEN labels_map.ENT ELSE labels_map.PAD)>>
                       \o rest.new_labels]

\* rows of seq_length w: c real tokens (id 1), the first from the text,
\* then padding; up to w + 1 gold tags
RowsOfLength(w) ==
    {[tokens |-> [x \in 1..w |-> IF x <= c THEN 1 ELSE PAD_ID],
      tag    |-> [x \in 1..w |-> IF x <= c THEN t[x] ELSE 0],
      labels |-> l] :
        c \in 1..w,
        t \in {u \in [1..w -> {0, 1}] : u[1] = 0},
        l \in UNION {[1..n -> {labels_map.O, labels_map.B_X}] : n \in 0..(w + 1)}}

InitReader ==
    /\ pc = "read"
    /\ trained_models_num = 0
    /\ models = <<>>
    /\ dataset = <<>>
    /\ batch_size = 1
    /\ i_ = 0
    /\ label_ids_batch = <<>>
    /\ batch_true_max_len = 0
    /\ all_pred = <<>>
    /\ gold = <<>>
    /\ pred = <<>>
    /\ confusion = ZeroConfusion
    /\ tag_correct = 0
    /\ correct = 0
    /\ gold_entities_num = 0
    /\ pred_entities_num = 0
    /\ pred_entities_pos = <<>>
    /\ gold_entities_pos = <<>>
    /\ report = <<>>
    /\ batches = <<>>
    /\ head = NoHead
    /\ line \in UNION {RowsOfLength(w) : w \in 1..MaxSeqLen}
    /\ vocab = <<>>

\* the body of the loop over the lines: the instance is appended to dataset
\* unless labels[j] raised
ReadRow ==
    /\ pc = "read"
    /\ LET out == NewLabels(line.tokens, line.tag, line.labels, 0, 0)
       IN  IF out.raised
           THEN pc' = "IndexError" /\ UNCHANGED dataset
           ELSE pc' = "appended" /\ dataset' = Append(dataset, out.new_labels)
    /\ UNCHANGED <<trained_models_num, models, batch_size, i_, label_ids_batch,
                   batch_true_max_len, all_pred, gold, pred, confusion, tag_correct,
                   correct, gold_entities_num, pred_entities_num, pred_entities_pos,
                   gold_entities_pos, head, report, batches, line, vocab>>

NextReader == ReadRow

SpecReader == InitReader /\ [][NextReader]_vars

(***************************************************************************)
(* SpecVocab: getLabeltoIx scans a training file.  A tag is the pair of    *)
(* its first character and the rest; a dict is the sequence of its keys in *)
(* insertion order, the value of the key at place x being x - 1.           *)
(***************************************************************************)
PadTag == <<"[", "PAD]">>
EntTag == <<"[", "ENT]">>

\* tags of the lines of a training file
FileTags == {<<"O", "">>, <<"B", "-X">>, <<"I", "-X">>, <<"S", "-X">>, EntTag}

\* what line.strip().split("\t")[1].split() yields for the header text\tlabel
HeaderLine == <<(<<"l", "abel">>)>>

\* l in labels_map
InDict(keys, l) == \E x \in 1..Len(keys) : keys[x] = l

\* variant: the begin id is taken after the tag has been inserted
AddLabel_BeginAfter(d, l) ==
    IF InDict(d.labels_map, l) THEN d
    ELSE [labels_map |-> Append(d.labels_map, l),
          begin_ids  |-> IF l[1] = "B" \/ l[1] = "S"
                         THEN Append(d.begin_ids, Len(d.labels_map) + 1)
                         ELSE d.begin_ids]

\* if l not in labels_map: begin_ids.append(len(labels_map)) when l starts
\* with B or S; labels_map[l] = len(labels_map)
AddLabel(d, l) ==
    IF InDict(d.labels_map, l) THEN d
    ELSE [labels_map |-> Append(d.labels_map, l),
          begin_ids  |-> IF l[1] = "B" \/ l[1] = "S"
                         THEN Append(d.begin_ids, Len(d.labels_map))
                         ELSE d.begin_ids]

RECURSIVE AddLabels(_, _)
\* for l in labels
AddLabels(d, labels) ==
    IF labels = <<>> THEN d ELSE AddLabels(AddLabel(d, Head(labels)), Tail(labels))

RECURSIVE ScanLines(_, _, _)
\* for line_id, line in enumerate(f): the line of line_id 0 is skipped
ScanLines(d, lines, line_id) ==
    IF line_id >= Len(lines) THEN d
    ELSE ScanLines(IF line_id = 0 THEN d ELSE AddLabels(d, At(lines, line_id)),
                   lines, line_id + 1)

getLabeltoIx(lines) ==
    ScanLines([labels_map |-> <<PadTag, EntTag>>, begin_ids |-> <<>>], lines, 0)

RECURSIVE SplitLines(_, _, _)
\* the lines of the tags after place x, a line ending at each place of cuts
SplitLines(tags, cuts, x) ==
    IF x >= Len(tags) THEN <<>>
    ELSE LET ends == {c \in cuts \cup {Len(tags)} : c > x}
             e == CHOOSE c \in ends : \A c2 \in ends : c <= c2
         IN  <<SubSeq(tags, x + 1, e)>> \o SplitLines(tags, cuts, e)

\* files: the header, then up to MaxFileTags tags in lines of one tag or more
TrainFiles ==
    UNION {{<<HeaderLine>>} \cup
           {<<HeaderLine>> \o SplitLines(tags, cuts, 0) :
               tags \in [1..k -> FileTags], cuts \in SUBSET (1..(k - 1))} :
           k \in 1..MaxFileTags}

InitVocab ==
    /\ pc = "getLabeltoIx"
    /\ trained_models_num = 0
    /\ models = <<>>
    /\ dataset = <<>>
    /\ batch_size = 1
    /\ PassLocals
    /\ head = NoHead
    /\ \E lines \in TrainFiles :
          vocab = [lines |-> lines, labels_map |-> <<>>, begin_ids |-> <<>>]

\* args.labels_map, args.begin_ids = getLabeltoIx(args.train_path)
ScanFile ==
    /\ pc = "getLabeltoIx"
    /\ LET d == getLabeltoIx(vocab.lines)
       IN  vocab' = [vocab EXCEPT !.labels_map = d.labels_map,
                                  !.begin_ids = d.begin_ids]
    /\ pc' = "scanned"
    /\ UNCHANGED <<trained_models_num, models, dataset, batch_size, i_,
                   label_ids_batch, batch_true_max_len, all_pred, gold, pred,
                   confusion, tag_correct, correct, gold_entities_num,
                   pred_entities_num, pred_entities_pos, gold_entities_pos, head,
                   report, batches, line>>

NextVocab == ScanFile

SpecVocab == InitVocab /\ [][NextVocab]_vars

(***************************************************************************)
(* Properties                                                              *)
(***************************************************************************)
\* the vote of the current batch has just been computed
Voted == pc = "score"

\* the current batch has been scored
Scored == pc = "loop" /\ i_ > 0

\* the heads that predict id at position x (1-based) of the batch
Votes(preds, x, id) == Cardinality({r \in 1..Len(preds) : preds[r][x] = id})

\* the ids that received a vote at x; every other id has zero votes
Cast(preds, x) == {preds[r][x] : r \in 1..Len(preds)}

\* id has strictly more votes at x than every other id
StrictWinner(preds, x, id) ==
    /\ id \in Cast(preds, x)
    /\ \A other \in Cast(preds, x) \ {id} :
          Votes(preds, x, id) > Votes(preds, x, other)

\* two or more ids share the highest count at x
Tie(preds, x) ==
    \E a, b \in Cast(preds, x) :
        /\ a # b
        /\ Votes(preds, x, a) = Votes(preds, x, b)
        /\ \A other \in Cast(preds, x) :
              Votes(preds, x, other) <= Votes(preds, x, a)

\* C1: at every position where one id has strictly more votes than every
\* other id, the merged id is that id, whatever the tie-break head predicted.
C1_ClearWinner ==
    Voted =>
        /\ Len(pred) = Len(all_pred[1])
        /\ \A x \in 1..Len(pred) : \A id \in Cast(all_pred, x) :
              StrictWinner(all_pred, x, id) => pred[x] = id

\* a strict winner that is not the tie-break head's own prediction
C1_Witness ==
    /\ Voted
    /\ Len(all_pred) > TieBreakIndex
    /\ \E x \in 1..Len(pred) : \E id \in Cast(all_pred, x) :
          /\ StrictWinner(all_pred, x, id)
          /\ At(all_pred, TieBreakIndex)[x] # id
          /\ pred[x] = id

\* C2: at every position where two or more ids share the highest count, the
\* merged id is the prediction of the head at index 2 of the head list.
C2_TieBreak ==
    Voted =>
        \A x \in 1..Len(pred) :
            Tie(all_pred, x) =>
                /\ Len(all_pred) > TieBreakIndex
                /\ pred[x] = At(all_pred, TieBreakIndex)[x]

\* four heads voting 2 : 2, the merged id being the third head's
C2_Witness ==
    /\ Voted
    /\ Len(all_pred) = 4
    /\ \E x \in 1..Len(pred) : \E a, b \in LabelIds :
          /\ a # b
          /\ Votes(all_pred, x, a) = 2
          /\ Votes(all_pred, x, b) = 2
          /\ pred[x] = At(all_pred, TieBreakIndex)[x]

\* C8: a missing tie-break head is rejected at construction, so no pass
\* fails on a tie: the vote never raises IndexError.
C8_NoFailureInPass == pc # "IndexError"

\* the order of n heads in which the heads at places a and b (1-based) have
\* exchanged their places; every order is a product of such exchanges
Exchange(n, a, b) == [r \in 1..n |-> IF r = a THEN b ELSE IF r = b THEN a ELSE r]

\* the gathered predictions had the heads been evaluated in order f
Reordered(preds, f) == [r \in 1..Len(preds) |-> preds[f[r]]]

\* C9 as written: the merged sequence is the same for every order in which
\* the heads' outputs are produced and gathered (here: whichever two heads
\* exchange their places).
C9_AnyOrder ==
    Voted => \A a, b \in 1..Len(all_pred) :
                 EnsembleVote(Reordered(all_pred, Exchange(Len(all_pred), a, b))) = pred

\* C9: the merged sequence is the same when any two heads other than the
\* one at index 2 exchange their places, hence for every order that keeps
\* the same head at index 2; at positions with a strict winner it is the
\* same whichever two heads exchange their places.
C9_OrderKeepingThirdHead ==
    Voted =>
        LET decided == {x \in 1..Len(pred) :
                           \E id \in Cast(all_pred, x) : StrictWinner(all_pred, x, id)}
        IN  \A a \in 1..Len(all_pred) : \A b \in (a + 1)..Len(all_pred) :
                LET merged == EnsembleVote(Reordered(all_pred, Exchange(Len(all_pred), a, b)))
                IN  /\ (a # TieBreakIndex + 1 /\ b # TieBreakIndex + 1) => merged = pred
                    /\ \A x \in decided : merged[x] = pred[x]

\* a tied position, and two heads other than the third whose exchange
\* changes the gathered predictions
C9_Witness ==
    /\ Voted
    /\ Len(all_pred) > TieBreakIndex
    /\ \E x \in 1..Len(pred) : Tie(all_pred, x)
    /\ \E a, b \in 1..Len(all_pred) :
          /\ a # TieBreakIndex + 1
          /\ b # TieBreakIndex + 1
          /\ Reordered(all_pred, Exchange(Len(all_pred), a, b)) # all_pred
          /\ EnsembleVote(Reordered(all_pred, Exchange(Len(all_pred), a, b))) = pred

\* C10: the correct count a head reports is the number of positions whose
\* gold id is not [PAD] and whose predicted id equals the gold id.
C10_CorrectExcludesPad ==
    head.called =>
        head.correct = Cardinality({x \in 1..Len(head.gold) :
                                       /\ head.gold[x] # labels_map.PAD
                                       /\ head.predict[x] = head.gold[x]})

Min(S) == CHOOSE m \in S : \A x \in S : m <= x

\* the 0-based positions of s whose id is in BeginIdSet
BeginPositions(s) == {j \in 0..(Len(s) - 1) : InBeginIds(At(s, j))}

\* the end of the span opened at j: the index before the first position
\* after j, not in skip, whose id in s is [PAD], O or a begin id; the last
\* index when there is none
RuleEnd(s, skip, j) ==
    LET stops == {k \in (j + 1)..(Len(s) - 1) : k \notin skip /\ IsBoundary(At(s, k))}
    IN  IF stops = {} THEN Len(s) - 1 ELSE Min(stops) - 1

\* the 0-based positions of s that carry id
PositionsOf(s, id) == {k \in 0..(Len(s) - 1) : At(s, k) = id}

\* the span rule applied to one sequence alone
SpanRule(s) ==
    {<<j, RuleEnd(s, PositionsOf(s, labels_map.ENT), j), At(s, j)>> :
        j \in BeginPositions(s)}

\* C3: the gold spans are one span per begin position j, with start j, type
\* the id at j, and end the index before the first later non-[ENT] position
\* that is [PAD], O or a begin id (the last index when there is none).
C3_GoldSpanRule ==
    Scored =>
        /\ Range(gold_entities_pos) = SpanRule(gold)
        /\ Len(gold_entities_pos) = Cardinality(BeginPositions(gold))

\* a gold span followed only by [ENT] markers up to a boundary
C3_Witness ==
    /\ Scored
    /\ \E x \in 1..Len(gold_entities_pos) :
          LET sp == gold_entities_pos[x]
          IN  /\ sp[2] > sp[1]
              /\ sp[2] + 1 < Len(gold)
              /\ \A k \in (sp[1] + 1)..sp[2] : At(gold, k) = labels_map.ENT
              /\ IsBoundary(At(gold, sp[2] + 1))

\* C4: scoring a batch adds to correct the number of triples that are in
\* both the predicted and the gold span set of that batch.
C4_ExactMatch ==
    [][pc = "score" =>
          correct' - correct =
              Cardinality(Range(pred_entities_pos') \cap Range(gold_entities_pos'))]_vars

\* one predicted span is a gold span, another differs from a gold span of
\* the same start in end or type, and only the first was counted
C4_Witness ==
    /\ Scored
    /\ i_ = 1
    /\ correct = 1
    /\ \E x \in 1..Len(pred_entities_pos) : \E y \in 1..Len(gold_entities_pos) :
          /\ pred_entities_pos[x][1] = gold_entities_pos[y][1]
          /\ pred_entities_pos[x] # gold_entities_pos[y]

\* C5 as written: the predicted spans are extracted from the merged
\* sequence alone, by the rule of the gold spans.
C5_PredictedAlone == Scored => Range(pred_entities_pos) = SpanRule(pred)

\* the spans of p given the positions where the gold id is [PAD] and [ENT]
PredSpanRule(p, gold_pad, gold_ent) ==
    {<<j, RuleEnd(p, gold_ent, j), At(p, j)>> :
        j \in BeginPositions(p) \ (gold_pad \cup gold_ent)}

\* C5: the predicted spans are a function of the merged sequence and of the
\* positions whose gold id is [PAD] or [ENT]: a span starts at each j whose
\* predicted id is a begin id and whose gold id is neither, positions whose
\* gold id is [ENT] are skipped, and the span ends before the first other
\* position whose predicted id is [PAD], O or a begin id.
C5_PredictedGivenGoldMarks ==
    Scored =>
        /\ Range(pred_entities_pos) =
               PredSpanRule(pred, PositionsOf(gold, labels_map.PAD),
                            PositionsOf(gold, labels_map.ENT))
        /\ Len(pred_entities_pos) = Cardinality(Range(pred_entities_pos))

\* a predicted span that runs over a gold-[ENT] position whose predicted id
\* is a boundary
C5_Witness ==
    /\ Scored
    /\ \E x \in 1..Len(pred_entities_pos) :
          LET sp == pred_entities_pos[x]
          IN  \E k \in (sp[1] + 1)..sp[2] :
                  At(gold, k) = labels_map.ENT /\ IsBoundary(At(pred, k))

\* C6: scoring a batch adds the number of predicted spans to
\* pred_entities_num and the number of gold spans to gold_entities_num.
C6_Denominators ==
    [][pc = "score" =>
          /\ pred_entities_num' - pred_entities_num = Len(pred_entities_pos')
          /\ gold_entities_num' - gold_entities_num = Len(gold_entities_pos')]_vars

\* the instance of the batch that holds position j of the flattened batch
InstanceOf(j) == j \div EffectiveLen(label_ids_batch, batch_true_max_len)

\* C7: every extracted span starts and ends in the same instance.
C7_SpanInOneInstance ==
    Scored =>
        \A sp \in Range(gold_entities_pos) \cup Range(pred_entities_pos) :
            InstanceOf(sp[1]) = InstanceOf(sp[2])

\* C11: the predicted sequence a head returns carries id 0 at every position
\* whose gold id is [PAD], whichever head class it is.
C11_PadZeroed ==
    head.called =>
        \A x \in 1..Len(head.gold) :
            head.gold[x] = labels_map.PAD => head.predict[x] = 0

\* the spans of one extraction pass are pairwise disjoint
Disjoint(spans) ==
    \A x, y \in 1..Len(spans) :
        spans[x][1] < spans[y][1] => spans[x][2] < spans[y][1]

\* C12: two spans of the same extraction pass (gold or predicted) never
\* overlap: the one that starts first ends before the other starts.
C12_NoOverlap ==
    Scored => Disjoint(gold_entities_pos) /\ Disjoint(pred_entities_pos)

\* two predicted spans, the first running over a position whose predicted
\* id is a begin id, and two gold spans in the same batch
C12_Witness ==
    /\ Scored
    /\ Len(gold_entities_pos) >= 2
    /\ \E x, y \in 1..Len(pred_entities_pos) :
          /\ pred_entities_pos[x][1] < pred_entities_pos[y][1]
          /\ \E k \in (pred_entities_pos[x][1] + 1)..pred_entities_pos[x][2] :
                InBeginIds(At(pred, k))

\* the gold sequence of batch i (0-based) of the pass
GoldOfBatch(i) ==
    LET rows == BatchRows(dataset, batch_size, i)
    IN  HeadLabel(rows, TrueMaxLen(rows))

\* the positions with gold id g in the batches scored so far
GoldSeen(g, n) ==
    SumOver(0..(n - 1),
            [i \in 0..(n - 1) |->
                LET gi == GoldOfBatch(i)
                IN  Cardinality({x \in 1..Len(gi) : gi[x] = g})])

\* C13: the matrix is all zeros when the pass begins; scoring a batch adds
\* to each cell [p][g] the number of positions of the batch whose merged id
\* is p and whose gold id is g, one increment per position in all and no
\* other cell changing; when the pass ends, column g sums to the number of
\* positions with gold id g.
C13_ConfusionAccumulation ==
    [][/\ pc = "main" => confusion = ZeroConfusion
       /\ pc = "score" =>
             /\ \A x \in 1..Len(pred) :
                   confusion'[pred[x]][gold[x]] - confusion[pred[x]][gold[x]] =
                       Cardinality({y \in 1..Len(pred) :
                                       pred[y] = pred[x] /\ gold[y] = gold[x]})
             /\ \A a, b \in LabelIds :
                   (\A x \in 1..Len(pred) : pred[x] # a \/ gold[x] # b)
                       => confusion'[a][b] = confusion[a][b]
             /\ LET cells == {<<pred[x], gold[x]>> : x \in 1..Len(pred)}
                IN  SumOver(cells, [c \in cells |->
                                confusion'[c[1]][c[2]] - confusion[c[1]][c[2]]])
                        = Len(pred)
       /\ pc' = "done" =>
             \A g \in LabelIds :
                 SumOver(LabelIds, [p \in LabelIds |-> confusion'[p][g]])
                     = GoldSeen(g, NumBatches(dataset, batch_size))]_vars

\* a finished pass over three one-token batches in which an off-diagonal
\* cell was incremented in two of them
C13_Witness ==
    /\ pc = "done"
    /\ i_ = 3
    /\ \E a, b \in LabelIds : a # b /\ confusion[a][b] = 2

\* the quotient q was computed without raising / is exactly 0
Defined(q) == q[2] # 0
IsZero(q) == q[1] = 0 /\ q[2] # 0

\* C14: the report is produced without a division by zero; a label id with
\* a zero row has precision 0, one with a zero column has recall 0, f1 is 0
\* when both are 0; entity-level precision is 0 when nothing was counted as
\* predicted or no span was predicted, recall is 0 when there is no gold
\* span, and f1 is 0 when both are 0.
C14_DegenerateDenominators ==
    pc = "done" =>
        /\ \A ii \in LabelIds :
              LET l == report.labels[ii]
              IN  /\ Defined(l.p) /\ Defined(l.r) /\ Defined(l.f1)
                  /\ (\A b \in LabelIds : confusion[ii][b] = 0) => IsZero(l.p)
                  /\ (\A a \in LabelIds : confusion[a][ii] = 0) => IsZero(l.r)
                  /\ (IsZero(l.p) /\ IsZero(l.r)) => IsZero(l.f1)
        /\ Defined(report.p) /\ Defined(report.r) /\ Defined(report.f1)
        /\ pred_entities_num = 0 => IsZero(report.p)
        /\ (i_ = 1 /\ pred_entities_pos = <<>>) => IsZero(report.p)
        /\ gold_entities_num = 0 => IsZero(report.r)
        /\ (i_ = 1 /\ gold_entities_pos = <<>>) => IsZero(report.r)
        /\ (IsZero(report.p) /\ IsZero(report.r)) => IsZero(report.f1)

\* a finished pass with a label that is gold but never predicted, a label
\* that is predicted but never gold, and no predicted entity
C14_Witness ==
    /\ pc = "done"
    /\ pred_entities_num = 0
    /\ gold_entities_num > 0
    /\ \E ii, jj \in LabelIds :
          /\ p_denominator(confusion, ii) = 0 /\ r_denominator(confusion, ii) # 0
          /\ r_denominator(confusion, jj) = 0 /\ p_denominator(confusion, jj) # 0
          /\ IsZero(report.labels[ii].f1)

\* the sequences of the end-to-end scenario
ScenarioGold == <<labels_map.O, labels_map.B_X, labels_map.ENT, labels_map.I_X, labels_map.O>>
ScenarioPred == [ScenarioGold EXCEPT ![4] = labels_map.O]

\* C15: gold [O, B-X, ENT, I-X, O] yields exactly the gold span (1, 3, B-X);
\* the prediction equal to it but for O at position 3 yields exactly the
\* predicted span (1, 2, B-X); correct is 0, both span counts are 1, and
\* precision and recall are 0.
C15_Scenario ==
    (pc = "done" /\ gold = ScenarioGold /\ pred = ScenarioPred) =>
        /\ gold_entities_pos = <<(<<1, 3, labels_map.B_X>>)>>
        /\ pred_entities_pos = <<(<<1, 2, labels_map.B_X>>)>>
        /\ correct = 0
        /\ pred_entities_num = 1
        /\ gold_entities_num = 1
        /\ report.p = <<0, 1>>
        /\ report.r = <<0, 1>>

\* the scenario has been scored and reported
C15_Witness ==
    /\ pc = "done"
    /\ gold = ScenarioGold
    /\ pred = ScenarioPred
    /\ Len(gold_entities_pos) = 1
    /\ Len(pred_entities_pos) = 1

\* s is a O tags, the begin tag B-X, k inside tags I-X, then O tags only
EntityAmongO(s, a, k) ==
    /\ a >= 1
    /\ a + 1 + k < Len(s)
    /\ \A x \in 1..Len(s) :
          s[x] = IF x <= a THEN labels_map.O
                 ELSE IF x = a + 1 THEN labels_map.B_X
                 ELSE IF x <= a + 1 + k THEN labels_map.I_X
                 ELSE labels_map.O

\* C16: from a sequence made of one entity's tags (a begin tag, then zero
\* or more inside tags) with one or more O tags before and after it, the
\* extractor returns exactly one span: from the index of the begin tag to
\* the index of the entity's last tag, with the begin tag's id as type.
C16_RoundTrip ==
    pc \in {"loop", "done"} =>
        \A a \in 1..Len(gold), k \in 0..Len(gold) :
            EntityAmongO(gold, a, k) =>
                /\ gold_entities_pos = <<(<<a, a + k, labels_map.B_X>>)>>
                /\ pred = gold => pred_entities_pos = gold_entities_pos

\* an entity of three tags between O tags has been extracted
C16_Witness ==
    /\ pc = "loop"
    /\ EntityAmongO(gold, 1, 2)
    /\ pred = gold
    /\ Len(gold_entities_pos) = 1

\* the number of instances of a yielded batch
BatchLen(b) == Len(b.input_ids)

\* tensor f of the batches yielded so far, one after the other
Yielded(f) == Flatten([k \in 1..Len(batches) |-> batches[k][f]])

\* C17: the batches come in dataset order; none is empty; every batch but
\* the last yielded has exactly batch_size instances and the last at most
\* batch_size; every tensor of a batch holds the same rows; when the loader
\* returns, the batches put end to end are the dataset.
C17_BatchSlicing ==
    /\ \A k \in 1..Len(batches) :
          /\ BatchLen(batches[k]) >= 1
          /\ BatchLen(batches[k]) <= batch_size
          /\ k < Len(batches) => BatchLen(batches[k]) = batch_size
          /\ \A f \in DOMAIN batches[k] : Len(batches[k][f]) = BatchLen(batches[k])
    /\ \A f \in DOMAIN Tensors(dataset) :
          /\ Len(Yielded(f)) <= Len(dataset)
          /\ Yielded(f) = SubSeq(Tensors(dataset)[f], 1, Len(Yielded(f)))
          /\ pc = "exhausted" => Yielded(f) = Tensors(dataset)[f]

\* the loader has returned after two or more full batches and a smaller
\* last one
C17_Witness ==
    /\ pc = "exhausted"
    /\ batch_size >= 2
    /\ Len(batches) >= 3
    /\ BatchLen(batches[Len(batches)]) < batch_size
    /\ dataset[1] # dataset[2]

\* the tuple the loader yielded for the batch being evaluated
CurrentBatch == LoaderBatch(Tensors(dataset), batch_size, i_ - 1)

\* t is the first n columns of u, row by row
FirstColumns(t, u, n) ==
    /\ Len(t) = Len(u)
    /\ \A x \in 1..Len(t) :
          /\ Len(t[x]) = n
          /\ \A c \in 1..n : t[x][c] = u[x][c]

\* C18: true_max_len of a batch is the largest row sum of its padding mask;
\* the token ids, labels, mask, position ids, visibility matrix (on both
\* axes) and padding mask a head computes on are the first true_max_len
\* columns of the batch's tensors; every head's flattened prediction and
\* gold sequence have (instances of the batch) x true_max_len entries.
C18_DynamicTruncation ==
    /\ pc \in {"forward", "vote", "score"} =>
          \A r \in 1..Len(all_pred) :
              /\ Len(all_pred[r]) = Len(label_ids_batch) * batch_true_max_len
              /\ Len(gold) = Len(label_ids_batch) * batch_true_max_len
    /\ (pc = "forward" /\ all_pred = <<>>) =>
        LET b  == CurrentBatch
            n  == batch_true_max_len
            in == HeadInputs(b, n)
        IN  /\ \E x \in 1..Len(b.padding_mask_ids) :
                  SumOver(DOMAIN b.padding_mask_ids[x], b.padding_mask_ids[x]) = n
            /\ \A x \in 1..Len(b.padding_mask_ids) :
                  SumOver(DOMAIN b.padding_mask_ids[x], b.padding_mask_ids[x]) <= n
            /\ FirstColumns(in.src, b.input_ids, n)
            /\ FirstColumns(in.label, b.label_ids, n)
            /\ FirstColumns(in.mask, b.mask_ids, n)
            /\ FirstColumns(in.pos, b.pos_ids, n)
            /\ FirstColumns(in.padding_mask, b.padding_mask_ids, n)
            /\ Len(in.vm) = Len(b.vm_ids)
            /\ \A x \in 1..Len(in.vm) :
                  FirstColumns(in.vm[x], SubSeq(b.vm_ids[x], 1, n), n)
            /\ b.label_ids = label_ids_batch

\* a head has evaluated a batch whose tensors were cut to fewer columns
\* than seq_length
C18_Witness ==
    /\ pc = "vote"
    /\ batch_true_max_len < Len(dataset[1])
    /\ Len(all_pred[1]) = Len(label_ids_batch) * batch_true_max_len

\* C19: the merged sequence of a batch has one id per token position of the
\* batch and the length of each head's predicted sequence, and the heads'
\* predicted sequences of the batch all have the same length.
C19_MergedLength ==
    /\ pc \in {"forward", "vote", "score"} =>
          \A r \in 1..Len(all_pred) : Len(all_pred[r]) = Len(all_pred[1])
    /\ Voted =>
          /\ Len(all_pred) = trained_models_num
          /\ \A r \in 1..Len(all_pred) : Len(pred) = Len(all_pred[r])
          /\ Len(pred) = Len(gold)
          /\ \A x \in 1..Len(pred) : pred[x] \in Cast(all_pred, x)

\* three or more heads have voted on a batch of two positions, one of them
\* tied
C19_Witness ==
    /\ Voted
    /\ Len(all_pred) >= 3
    /\ Len(pred) = 2
    /\ \E x \in 1..Len(pred) : Tie(all_pred, x)

\* the original-text positions of the row: provenance 0 and not padding
TextPositions == {x \in 1..Len(line.tokens) : line.tag[x] = 0 /\ line.tokens[x] # PAD_ID}

\* C20: a row whose number of gold tags differs from its number of
\* original-text positions, too few or too many, aborts the run and yields
\* no instance.
C20_MalformedRowFatal ==
    (pc # "read" /\ Len(line.labels) # Cardinality(TextPositions)) =>
        pc = "IndexError" /\ dataset = <<>>

\* the tags of the lines after the header, in the order of the file
ScannedTags == Flatten(Tail(vocab.lines))

\* the place of the first occurrence of tag l in s, Len(s) + 1 when absent
FirstPlace(s, l) ==
    IF \E x \in 1..Len(s) : s[x] = l
    THEN CHOOSE x \in 1..Len(s) : s[x] = l /\ \A y \in 1..(x - 1) : s[y] # l
    ELSE Len(s) + 1

\* C21: the vocabulary getLabeltoIx returns maps [PAD] to 0 and [ENT] to 1,
\* holds every tag of the file's lines after the header and nothing else,
\* gives the tags the ids 0..n-1 in first-seen order with no id shared, and
\* begin_ids holds, once each, exactly the ids of the scanned tags that start
\* with B or S, never 0 or 1.
C21_Vocabulary ==
    pc = "scanned" =>
        LET keys == vocab.labels_map
            b    == vocab.begin_ids
            n    == Len(keys)
            id(l) == FirstPlace(keys, l) - 1
        IN  /\ keys[1] = PadTag /\ keys[2] = EntTag
            /\ \A x, y \in 1..n : keys[x] = keys[y] => x = y
            /\ Range(keys) = {PadTag, EntTag} \cup Range(ScannedTags)
            /\ \A x, y \in 3..n :
                   x < y => FirstPlace(ScannedTags, keys[x]) < FirstPlace(ScannedTags, keys[y])
            /\ \A x, y \in 1..Len(b) : b[x] = b[y] => x = y
            /\ Range(b) = {id(l) : l \in {t \in Range(ScannedTags) \ {PadTag, EntTag} :
                                             t[1] = "B" \/ t[1] = "S"}}
            /\ 0 \notin Range(b) /\ 1 \notin Range(b)
            /\ \A x \in 1..Len(b) : b[x] \in 2..(n - 1)

\* a file of two lines with a repeated tag and two begin tags has been scanned
C21_Witness ==
    /\ pc = "scanned"
    /\ Len(vocab.lines) = 3
    /\ Len(vocab.begin_ids) = 2
    /\ Len(ScannedTags) > Len(vocab.labels_map) - 2

\* C22: for every row with as many gold tags as original-text positions, the
\* instance's label sequence is as long as its token sequence; an
\* original-text position carries the next unused gold tag id in row order,
\* a knowledge position that is not padding carries the [ENT] id 1, and
\* every other position carries the [PAD] id 0.
C22_LabelRemapping ==
    (pc # "read" /\ Len(line.labels) = Cardinality(TextPositions)) =>
        /\ pc = "appended"
        /\ Len(dataset) = 1
        /\ Len(dataset[1]) = Len(line.tokens)
        /\ \A x \in 1..Len(line.tokens) :
               dataset[1][x] =
                   IF x \in TextPositions
                   THEN line.labels[Cardinality({y \in TextPositions : y <= x})]
                   ELSE IF line.tag[x] = 1 /\ line.tokens[x] # PAD_ID THEN 1 ELSE 0

\* a row of text, knowledge, text and padding with two different gold tags
\* has been converted
C22_Witness ==
    /\ pc = "appended"
    /\ line.tokens = <<1, 1, 1, PAD_ID>>
    /\ line.tag = <<0, 1, 0, 0>>
    /\ line.labels = <<labels_map.B_X, labels_map.O>>
    /\ dataset = <<(<<labels_map.B_X, labels_map.ENT, labels_map.O, labels_map.PAD>>)>>

\* the counters and the matrix the scoring of a batch updates
Scores == <<confusion, tag_correct, correct, gold_entities_num, pred_entities_num,
            pred_entities_pos, gold_entities_pos>>

\* C23: in every step of a pass, a head is run only on the current batch and
\* only while fewer heads than the active ones have been run on it; the vote
\* is computed only when every active head has been run once on the batch;
\* the batch is scored only after its vote; the next batch is started only
\* after the previous one has been scored; and the report is made only when
\* the last batch has been scored, from counters it leaves unchanged.
C23_PassOrdering ==
    [][/\ all_pred' # all_pred =>
              \/ pc = "loop" /\ pc' = "forward" /\ all_pred' = <<>>
              \/ /\ pc = "forward"
                 /\ Len(all_pred) < Len(models)
                 /\ Len(all_pred') = Len(all_pred) + 1
                 /\ SubSeq(all_pred', 1, Len(all_pred)) = all_pred
       /\ pc' = "vote" => pc = "forward" /\ Len(all_pred') = Len(models)
       /\ pred' # pred => pc = "vote" /\ Len(all_pred) = Len(models)
       /\ pc' = "score" => pc = "vote"
       /\ Scores' # Scores => pc = "score" /\ pc' = "loop"
       /\ pc' = "loop" => (pc = "main" /\ i_ = 0) \/ pc = "score"
       /\ i_' # i_ => pc = "loop" /\ i_' = i_ + 1 /\ i_ * batch_size < Len(dataset)
       /\ pc' = "forward" /\ pc = "loop" => all_pred' = <<>>
       /\ report' # report =>
              /\ pc = "loop"
              /\ i_ * batch_size >= Len(dataset)
              /\ Scores' = Scores]_vars

\* a pass of three heads over two batches has reached the report
C23_Witness ==
    /\ pc = "done"
    /\ i_ = 2
    /\ Len(models) = 3
    /\ Len(all_pred) = 3
    /\ report # <<>>

\* A pass that is not finished takes its next step: the interpreter runs the
\* statements of ensemblePredict one after another and every forward call
\* returns.
SpecFair == Spec /\ WF_vars(Next)

\* C24: every pass eventually processes its last batch and reaches the
\* report.
C24_Termination == <>(pc = "done" /\ i_ * batch_size >= Len(dataset))

\* C25: at every position of a voted batch the merged id has at least as
\* many votes as every other id cast there, tied positions included.
C25_Plurality ==
    Voted =>
        \A x \in 1..Len(pred) :
            \A other \in Cast(all_pred, x) :
                Votes(all_pred, x, pred[x]) >= Votes(all_pred, x, other)

\* C26: with the first n heads of the architecture list, the merged id is 0
\* at every position whose gold id is [PAD], whatever BertLstm and BertGru
\* predict there, and the cells of column 0 of the confusion matrix are 0
\* outside row 0.
C26_PadMergedZero ==
    /\ Voted => \A x \in 1..Len(pred) : gold[x] = labels_map.PAD => pred[x] = 0
    /\ \A a \in LabelIds \ {0} : confusion[a][0] = 0

\* six heads have been scored on a batch in which BertLstm and BertGru both
\* predict B-X at a [PAD] position
C26_Witness ==
    /\ Scored
    /\ Len(models) = 6
    /\ \E x \in 1..Len(gold) :
          /\ gold[x] = labels_map.PAD
          /\ all_pred[5][x] = labels_map.B_X
          /\ all_pred[6][x] = labels_map.B_X
    /\ confusion[0][0] > 0

\* the quotient q = <<n, d>> is defined and lies between 0 and 1
InUnitInterval(q) == q[2] > 0 /\ 0 <= q[1] /\ q[1] <= q[2]

\* C27: after any number of scored batches correct is at least 0 and at most
\* pred_entities_num and at most gold_entities_num, and the entity precision
\* and recall of the report lie between 0 and 1.
C27_BoundedScores ==
    /\ 0 <= correct
    /\ correct <= pred_entities_num
    /\ correct <= gold_entities_num
    /\ pc = "done" => InUnitInterval(report.p) /\ InUnitInterval(report.r)

\* the report of a pass of two scored batches with a matched span and an
\* unmatched predicted span
C27_Witness ==
    /\ pc = "done"
    /\ i_ = 2
    /\ correct = 1
    /\ pred_entities_num = 2
    /\ gold_entities_num >= 1
    /\ report.p = <<1, 2>>

RECURSIVE SumTo(_, _)
\* f[0] + ... + f[n]
SumTo(f, n) == IF n < 0 THEN 0 ELSE f[n] + SumTo(f, n - 1)

\* the sum of all cells / of the diagonal cells of the matrix
CellSum(conf) ==
    SumTo([a \in LabelIds |-> SumTo(conf[a], Cardinality(LabelIds) - 1)],
          Cardinality(LabelIds) - 1)
DiagonalSum(conf) == SumTo([a \in LabelIds |-> conf[a][a]], Cardinality(LabelIds) - 1)

\* the batches scored so far: the current batch is not scored before the
\* scoring block has run
ScoredBatches == IF pc \in {"forward", "vote", "score", "IndexError"} THEN i_ - 1 ELSE i_

\* instances x truncated width, summed over the batches scored so far
PositionsScored ==
    SumTo([k \in 0..(ScoredBatches - 1) |->
              LET rows == BatchRows(dataset, batch_size, k)
              IN  Len(rows) * EffectiveLen(rows, TrueMaxLen(rows))],
          ScoredBatches - 1)

\* C28: after any number of scored batches the cells of the confusion
\* matrix sum to the number of token positions scored so far and tag_correct
\* equals the sum of the diagonal cells; no cell and no counter ever
\* decreases.
C28_CounterConsistency ==
    /\ [](/\ CellSum(confusion) = PositionsScored
          /\ tag_correct = DiagonalSum(confusion))
    /\ [][/\ \A a, b \in LabelIds : confusion'[a][b] >= confusion[a][b]
          /\ tag_correct' >= tag_correct
          /\ correct' >= correct
          /\ gold_entities_num' >= gold_entities_num
          /\ pred_entities_num' >= pred_entities_num]_vars

\* two batches have been scored, one position right and one wrong
C28_Witness ==
    /\ Scored
    /\ i_ = 2
    /\ tag_correct = 1
    /\ PositionsScored = 2
    /\ \E a, b \in LabelIds : a # b /\ confusion[a][b] = 1

\* the label rows of the current batch cut to the batch width, row by row
TruncatedGold ==
    Flatten([x \in 1..Len(label_ids_batch) |->
                SubSeq(label_ids_batch[x], 1, batch_true_max_len)])

\* C29: every head run on a batch returns as gold the label rows of the
\* batch truncated to the batch width and flattened, so the gold kept from
\* the last head, against which the batch is voted and scored, is the gold
\* of every other head.
C29_GoldAgreement ==
    /\ [](pc \in {"vote", "score"} => gold = TruncatedGold)
    /\ [][pc = "forward" => gold' = TruncatedGold]_vars

\* six heads have been run on a truncated batch
C29_Witness ==
    /\ pc = "score"
    /\ Len(models) = 6
    /\ Len(all_pred) = 6
    /\ batch_true_max_len < Len(label_ids_batch[1])
    /\ gold = TruncatedGold

\* the padding mask is a run of 1s followed only by 0s
PrefixMask(m) == \A x, y \in 1..Len(m) : (x < y /\ m[y] = 1) => m[x] = 1

\* the number of columns the head kept
KeptWidth == Len(head.gold) \div Len(head.label)

\* C30: for a batch whose padding masks are runs of 1s followed only by 0s,
\* a head called with the true_max_len of the batch keeps every position
\* whose padding mask is 1, and some instance has padding mask 1 in the
\* last kept column; a head called with 0 keeps the full width.
C30_TruncationKeepsContent ==
    (head.called /\ \A r \in 1..Len(head.label) : PrefixMask(PaddingMask(head.label[r]))) =>
        /\ Len(head.gold) = Len(head.label) * KeptWidth
        /\ Len(head.predict) = Len(head.gold)
        /\ IF head.batch_sequence_max_len = 0
           THEN KeptWidth = Len(head.label[1])
           ELSE /\ KeptWidth = head.batch_sequence_max_len
                /\ KeptWidth >= 1
                /\ \A r \in 1..Len(head.label) :
                       \A x \in (KeptWidth + 1)..Len(head.label[r]) :
                           PaddingMask(head.label[r])[x] = 0
                /\ \E r \in 1..Len(head.label) :
                       PaddingMask(head.label[r])[KeptWidth] = 1

\* a head has cut a padded batch to its true_max_len
C30_Witness ==
    /\ head.called
    /\ head.batch_sequence_max_len > 0
    /\ KeptWidth < Len(head.label[1])
    /\ head.gold = HeadLabel(head.label, head.batch_sequence_max_len)

====
